---- MODULE Spec2Model ----
(***************************************************************************)
(* A model of the COLIN adapter's CORP_STATE / CORPORATION maintenance and *)
(* business lookup (colin_api/models/business.py), of the legal-api filing *)
(* endpoints (legal_api/resources/business/business_filings.py) and of the *)
(* filing validation entry point (.../filings/validations/validation.py).  *)
(*                                                                         *)
(* Tables are sets of rows (records).  SQL NULL / Python None is NULL.     *)
(***************************************************************************)
EXTENDS Integers, Sequences, FiniteSets, TLC

\* ------------------------------------------------------------------ bounds
\* Number of event ids the EVENT sequence hands out in one run.
MaxEvents == 3

\* First value of the database clock in a run.
FirstSysdate == 11

\* Number of Filing rows created in one run.
MaxFilingRows == 2

\* SQL NULL (and Python None) in an integer-valued column.
NULL == -1

\* corporation numbers and CORP_STATE.state_typ_cd codes used in the runs
CorpNums == {"CP1", "CP2"}
StateTypCds == {"ACT", "HIS"}

\* ------------------------------------------------------------------ state
VARIABLES
    corp_state,      \* table CORP_STATE: rows [corp_num, start_event_id, end_event_id, state_typ_cd]
    next_event_id,   \* the next value of the event id sequence (fresh event ids)
    last_call,       \* history: the call that produced this state
    before_call,     \* history: CORP_STATE as it was before that call
    undo_latest,     \* history: every reset so far undid only the latest events of each corporation
    call,            \* per connection: the update_corp_state call it is running, and where it is
    event,           \* table EVENT: rows [event_id, corp_num, event_timestmp]
    filing,          \* table FILING: rows [event_id, period_end_dt, agm_date]
    corporation,     \* table CORPORATION: corp_num -> [last_ar_filed_dt, last_agm_date, last_ledger_dt]
    sysdate,         \* the database clock
    before_event,    \* history: event id -> the corporation's three fields just before that event
    last_reset,      \* history: the last reset_corporations call and how it ended
    filings,         \* legal-api table of Filing rows [id, business, filing_json, payment_token]
    next_filing_id,  \* the id the next new Filing row gets
    last_put,        \* history: the last POST/PUT submission and the reply to it
    before_put,      \* history: the Filing rows as they were before that submission
    filing_status,   \* Filing.status of each Filing row: filing id -> status
    colin_event_id,  \* Filing.colin_event_id of each Filing row: filing id -> id or NULL
    last_get,        \* history: the last GET /internal/filings and the table it read
    last_patch,      \* history: the last PATCH /internal/filings/<filing_id> and its reply
    attached,        \* history: filing ids a PATCH has set a non-null colin_event_id on
    last_find,       \* history: the last Business.find_by_identifier call and how it ended
    last_validate,   \* history: the last validation.validate call and what it returned
    rowcount,        \* per connection: cursor.rowcount of its call's UPDATE (NULL before it)
    inserted_since,  \* history, per connection: another call inserted a row for the same
                     \* corporation since this connection's UPDATE
    overlapped,      \* history: calls whose UPDATE ran between another call's two statements
    observed         \* history: what the last find_by_identifier's query saw of CORP_STATE

corp_state_vars == <<corp_state, last_call, before_call, undo_latest, call>>
corporation_vars == <<event, filing, corporation, sysdate, before_event, last_reset>>
filings_vars == <<filings, next_filing_id, last_put, before_put>>
internal_vars == <<filing_status, colin_event_id, last_get, last_patch, attached>>
lookup_vars == <<last_find, last_validate>>
stmt_vars == <<rowcount, inserted_since, overlapped, observed>>
other_vars == <<internal_vars, lookup_vars, stmt_vars>>
vars == <<corp_state, next_event_id, last_call, before_call, undo_latest, call,
          event, filing, corporation, sysdate, before_event, last_reset,
          filings, next_filing_id, last_put, before_put,
          filing_status, colin_event_id, last_get, last_patch, attached,
          last_find, last_validate,
          rowcount, inserted_since, overlapped, observed>>

\* ------------------------------------------------------- CORP_STATE rows
CorpStateRow(corp_num, start_event_id, end_event_id, state_typ_cd) ==
    [corp_num |-> corp_num, start_event_id |-> start_event_id,
     end_event_id |-> end_event_id, state_typ_cd |-> state_typ_cd]

\* The rows of a corporation that are its current state: end_event_id is null.
ActiveRows(table, corp_num) ==
    {r \in table : r.corp_num = corp_num /\ r.end_event_id = NULL}

\* UPDATE corp_state SET end_event_id = :event_id
\* WHERE corp_num = :corp_num and end_event_id is NULL
EndActiveCorpStateWrongTest(table, event_id, corp_num) ==
    {IF r.corp_num = corp_num /\ r.end_event_id = event_id
        THEN [r EXCEPT !.end_event_id = event_id] ELSE r : r \in table}

EndActiveCorpStateByDelete(table, event_id, corp_num) ==
    {r \in table : ~(r.corp_num = corp_num /\ r.end_event_id = NULL)}

EndActiveCorpState(table, event_id, corp_num) ==
    {IF r.corp_num = corp_num /\ r.end_event_id = NULL
        THEN [r EXCEPT !.end_event_id = event_id] ELSE r : r \in table}

\* INSERT INTO corp_state (corp_num, start_event_id, state_typ_cd) VALUES (...)
\* end_event_id is not given a value: it is null.
InsertCorpStateDefaultState(table, event_id, corp_num, state) ==
    table \cup {CorpStateRow(corp_num, event_id, NULL, "ACT")}

InsertCorpStateEnded(table, event_id, corp_num, state) ==
    table \cup {CorpStateRow(corp_num, event_id, event_id, state)}

InsertCorpState(table, event_id, corp_num, state) ==
    table \cup {CorpStateRow(corp_num, event_id, NULL, state)}

\* update_corp_state as a whole: the UPDATE, then the INSERT.
UpdateCorpStateInsertOnly(table, event_id, corp_num, state) ==
    InsertCorpState(table, event_id, corp_num, state)

UpdateCorpState(table, event_id, corp_num, state) ==
    InsertCorpState(EndActiveCorpState(table, event_id, corp_num),
                    event_id, corp_num, state)

\* DELETE FROM corp_state WHERE start_event_id in (event_ids)
DeleteStartedCorpState(table, event_ids) ==
    {r \in table : r.start_event_id \notin event_ids}

\* UPDATE corp_state SET end_event_id = null WHERE end_event_id in (event_ids)
ReopenEndedCorpStateAll(table, event_ids) ==
    {IF r.end_event_id # NULL
        THEN [r EXCEPT !.end_event_id = NULL] ELSE r : r \in table}

ReopenEndedCorpState(table, event_ids) ==
    {IF r.end_event_id \in event_ids
        THEN [r EXCEPT !.end_event_id = NULL] ELSE r : r \in table}

\* reset_corp_states as a whole: nothing for an empty list, else DELETE then UPDATE.
ResetCorpStatesDeleteOnly(table, event_ids) ==
    IF Cardinality(event_ids) < 1 THEN table
    ELSE DeleteStartedCorpState(table, event_ids)

ResetCorpStates(table, event_ids) ==
    IF Cardinality(event_ids) < 1 THEN table
    ELSE ReopenEndedCorpState(DeleteStartedCorpState(table, event_ids), event_ids)

\* The event ids a table mentions for a corporation.
EventIdsOf(table, corp_num) ==
    {r.start_event_id : r \in {x \in table : x.corp_num = corp_num}}
    \cup {r.end_event_id : r \in {x \in table : x.corp_num = corp_num /\ x.end_event_id # NULL}}

\* event_ids undoes only the latest events: with an event id of a corporation it
\* holds every later event id of that corporation's rows.
UndoesLatest(table, event_ids) ==
    \A c \in CorpNums : \A e \in EventIdsOf(table, c) \cap event_ids :
        \A f \in EventIdsOf(table, c) : f > e => f \in event_ids

\* ------------------------------------------------------------------ calls
NoCall ==
    [op |-> "none", event_id |-> NULL, corp_num |-> "", state |-> "",
     event_ids |-> {}, after_update |-> NULL]

\* Database connections (one request handler each) that run calls concurrently.
Connections == {"conn1", "conn2"}

Idle == [pc |-> "idle", event_id |-> NULL, corp_num |-> "", state |-> ""]

\* A CORPORATION row's three date columns, all null.
NoDates == [last_ar_filed_dt |-> NULL, last_agm_date |-> NULL, last_ledger_dt |-> NULL]

NoReset ==
    [called |-> FALSE, event_info |-> <<>>, event_ids |-> {}, raised |-> "",
     failed_corp |-> "", updated |-> <<>>, dates |-> <<>>, failing |-> {}]

\* request.get_json() of a request without a JSON body (falsy).
NoJson == [empty |-> TRUE, schema_valid |-> FALSE, keys |-> <<>>, failing |-> {}]

NoPut ==
    [method |-> "", filing_id |-> NULL, draft |-> "", doc |-> NoJson, code |-> NULL,
     body |-> "", steps |-> <<>>, failed |-> "", saved_id |-> NULL,
     payment_calls |-> 0, payment |-> "", invoice_id |-> NULL]

\* The ids Filing rows get.
FilingIds == 1 .. MaxFilingRows

NoGet == [called |-> FALSE, ids |-> {}, after_attach |-> FALSE]

NoPatch == [filing_id |-> NULL, body |-> "", colin_id |-> NULL, code |-> NULL]

NoFind ==
    [called |-> FALSE, identifier |-> "", row |-> <<>>, outcome |-> "",
     exception |-> "", logged |-> FALSE, business |-> <<>>]

NoValidate == [called |-> FALSE, doc |-> NoJson, err |-> "", steps |-> <<>>]

NoObserved == [between |-> FALSE, inserted_since |-> FALSE, active |-> 0]

\* When a run starts CP1 is an existing corporation with its active state row
\* (started by an earlier event, 0); CP2 has no state row yet.
Init ==
    /\ corp_state = {CorpStateRow("CP1", 0, NULL, "ACT")}
    /\ next_event_id = 1
    /\ last_call = NoCall
    /\ before_call = {}
    /\ undo_latest = TRUE
    /\ call = [p \in Connections |-> Idle]
    /\ event = {}
    /\ filing = {}
    /\ corporation = [c \in CorpNums |-> NoDates]
    /\ sysdate = FirstSysdate
    /\ before_event = <<>>
    /\ last_reset = NoReset
    /\ filings = {}
    /\ next_filing_id = 1
    /\ last_put = NoPut
    /\ before_put = {}
    /\ filing_status = [id \in FilingIds |-> "PENDING"]
    /\ colin_event_id = [id \in FilingIds |-> NULL]
    /\ last_get = NoGet
    /\ last_patch = NoPatch
    /\ attached = {}
    /\ last_find = NoFind
    /\ last_validate = NoValidate
    /\ rowcount = [p \in Connections |-> NULL]
    /\ inserted_since = [p \in Connections |-> FALSE]
    /\ overlapped = {}
    /\ observed = NoObserved

\* Business.update_corp_state(cursor, event_id, corp_num, state), event_id fresh.
update_corp_state(corp_num, state) ==
    /\ next_event_id <= MaxEvents
    /\ corp_state' = UpdateCorpState(corp_state, next_event_id, corp_num, state)
    /\ next_event_id' = next_event_id + 1
    /\ last_call' = [NoCall EXCEPT !.op = "update", !.event_id = next_event_id,
                                   !.corp_num = corp_num, !.state = state]
    /\ before_call' = corp_state
    /\ UNCHANGED <<undo_latest, call>>
    /\ UNCHANGED corporation_vars
    /\ UNCHANGED filings_vars
    /\ UNCHANGED other_vars

\* Business.reset_corp_states(cursor, event_ids), event_ids among the ids handed out.
reset_corp_states(event_ids) ==
    /\ corp_state' = ResetCorpStates(corp_state, event_ids)
    /\ last_call' = [NoCall EXCEPT !.op = "reset", !.event_ids = event_ids,
                                   !.after_update = IF last_call.op = "update"
                                                    THEN last_call.event_id ELSE NULL]
    /\ before_call' = corp_state
    /\ undo_latest' = (undo_latest /\ UndoesLatest(corp_state, event_ids))
    /\ UNCHANGED <<next_event_id, call>>
    /\ UNCHANGED corporation_vars
    /\ UNCHANGED filings_vars
    /\ UNCHANGED other_vars

Next ==
    \/ \E c \in CorpNums, s \in StateTypCds : update_corp_state(c, s)
    \/ \E ids \in SUBSET (1 .. (next_event_id - 1)) : reset_corp_states(ids)

Spec == Init /\ [][Next]_vars

\* C1 (as stated): at most one CORP_STATE row per corp_num has end_event_id null,
\* after any sequence of update_corp_state calls (fresh event ids) and
\* reset_corp_states calls with any set of the event ids used so far.
AtMostOneActiveRow ==
    \A c \in CorpNums : Cardinality(ActiveRows(corp_state, c)) <= 1

\* C1 (amended): the same, for the runs whose reset_corp_states calls undo only
\* the latest events of each corporation (event_ids is closed under "later event
\* id of the same corporation's rows").
AtMostOneActiveRowUndoingLatest ==
    undo_latest => AtMostOneActiveRow

\* A reset that undid the latest events has just reopened an ended row.
ResetLatestReopenedRow ==
    /\ undo_latest
    /\ last_call.op = "reset"
    /\ \E r \in corp_state :
          /\ r.end_event_id = NULL
          /\ r \notin before_call
          /\ \E e \in last_call.event_ids : [r EXCEPT !.end_event_id = e] \in before_call

\* C2: update_corp_state(e, corp_num, s) with e used by no row, followed by
\* reset_corp_states([e]), yields the CORP_STATE table from before the update.
UpdateThenResetRestoresTable ==
    [][(/\ last_call.op = "update"
        /\ last_call'.op = "reset"
        /\ last_call'.event_ids = {last_call.event_id})
       => corp_state' = before_call]_vars

\* reset_corp_states([e]) has just run right after update_corp_state(e, ...):
\* the row started by e is gone and the row e had ended is active again.
ResetAfterUpdateActed ==
    /\ last_call.op = "reset"
    /\ last_call.after_update # NULL
    /\ last_call.event_ids = {last_call.after_update}
    /\ \E r \in before_call : r.start_event_id = last_call.after_update /\ r \notin corp_state
    /\ \E r \in corp_state :
          /\ r.end_event_id = NULL
          /\ [r EXCEPT !.end_event_id = last_call.after_update] \in before_call

\* ------------------------------------------- concurrent update_corp_state
\* A handler starts update_corp_state(event_id, corp_num, state) on its
\* connection; the event id was drawn from the event id sequence.
begin_update_corp_state(p, corp_num, state) ==
    /\ call[p].pc = "idle"
    /\ next_event_id <= MaxEvents
    /\ call' = [call EXCEPT ![p] = [pc |-> "update", event_id |-> next_event_id,
                                    corp_num |-> corp_num, state |-> state]]
    /\ next_event_id' = next_event_id + 1
    /\ UNCHANGED <<corp_state, last_call, before_call, undo_latest>>
    /\ UNCHANGED corporation_vars
    /\ UNCHANGED filings_vars
    /\ UNCHANGED other_vars

\* The UPDATE and the INSERT of update_corp_state, run as one atomic transaction.
txn_update_corp_state(p) ==
    /\ call[p].pc = "update"
    /\ corp_state' = UpdateCorpState(corp_state, call[p].event_id,
                                     call[p].corp_num, call[p].state)
    /\ call' = [call EXCEPT ![p] = Idle]
    /\ UNCHANGED <<next_event_id, last_call, before_call, undo_latest>>
    /\ UNCHANGED corporation_vars
    /\ UNCHANGED filings_vars
    /\ UNCHANGED other_vars

NextTxn ==
    \/ \E p \in Connections, c \in CorpNums, s \in StateTypCds :
          begin_update_corp_state(p, c, s)
    \/ \E p \in Connections : txn_update_corp_state(p)

SpecTxn == Init /\ [][NextTxn]_vars

\* C3: a corp_num that has one active row when the calls start has exactly one
\* active row after every completed call, under every interleaving of concurrent
\* update_corp_state calls whose UPDATE+INSERT pair is one atomic transaction.
ExactlyOneActiveRowUnderTxn ==
    \A c \in CorpNums :
        (\E r \in corp_state : r.corp_num = c /\ r.start_event_id = 0)
            => Cardinality(ActiveRows(corp_state, c)) = 1

\* Two calls for one corporation overlapped and committed against the order of
\* their event ids: the row started by the later event was ended by the earlier.
TxnCallsOverlapped ==
    \E r \in corp_state :
        /\ r.end_event_id # NULL
        /\ r.start_event_id > r.end_event_id
        /\ \E q \in corp_state : q.corp_num = r.corp_num /\ q.start_event_id = 0
        /\ \A p \in Connections : call[p].pc = "idle"

\* ------------------------------------------------ CORPORATION date fields
\* FILING.period_end_dt and FILING.agm_date values (calendar dates); event
\* timestamps are clock values from FirstSysdate on.
Dates == {1, 2}

\* Business.update_corporation(cursor, corp_num, date) at clock value now:
\* with a date the three fields are written, without one only LAST_LEDGER_DT.
UpdateCorporation(corp, corp_num, date, now) ==
    IF date # NULL
    THEN [corp EXCEPT ![corp_num] =
            [last_ar_filed_dt |-> now, last_agm_date |-> date, last_ledger_dt |-> now]]
    ELSE [corp EXCEPT ![corp_num].last_ledger_dt = now]

\* A Python dict with string keys: key test and item assignment.
HasKey(d, k) == k \in DOMAIN d
SetItem(d, k, v) == [x \in DOMAIN d \cup {k} |-> IF x = k THEN v ELSE d[x]]

\* events_by_corp_num of _get_last_ar_dates_for_reset: one entry per corp_num in
\* the order the corp_nums first appear in event_info, holding the least event id.
RECURSIVE EventsByCorpNumFrom(_, _)
EventsByCorpNumFrom(event_info, acc) ==
    IF event_info = <<>> THEN acc
    ELSE LET info == Head(event_info)
             at == {i \in DOMAIN acc : acc[i].corp_num = info.corp_num}
         IN  EventsByCorpNumFrom(Tail(event_info),
                IF at = {} THEN Append(acc, info)
                ELSE LET i == CHOOSE j \in at : TRUE
                     IN  IF acc[i].event_id > info.event_id
                         THEN [acc EXCEPT ![i].event_id = info.event_id]
                         ELSE acc)

EventsByCorpNum(event_info) == EventsByCorpNumFrom(event_info, <<>>)

\* SELECT event.corp_num, event.event_timestmp, filing.period_end_dt, filing.agm_date
\* FROM event JOIN filing on filing.event_id = event.event_id
\* WHERE event.event_id not in (event_ids) AND event.corp_num = :corp_num
SelectFilingRowsOfAllEvents(event_rows, filing_rows, event_ids, corp_num) ==
    {[corp_num |-> p[1].corp_num, event_timestmp |-> p[1].event_timestmp,
      period_end_dt |-> p[2].period_end_dt, agm_date |-> p[2].agm_date] :
        p \in {q \in event_rows \X filing_rows :
                 /\ q[1].event_id = q[2].event_id
                 /\ q[1].corp_num = corp_num}}

SelectFilingRows(event_rows, filing_rows, event_ids, corp_num) ==
    {[corp_num |-> p[1].corp_num, event_timestmp |-> p[1].event_timestmp,
      period_end_dt |-> p[2].period_end_dt, agm_date |-> p[2].agm_date] :
        p \in {q \in event_rows \X filing_rows :
                 /\ q[1].event_id = q[2].event_id
                 /\ q[1].event_id \notin event_ids
                 /\ q[1].corp_num = corp_num}}

\* ORDER BY event.event_timestmp desc
RECURSIVE OrderByTimestampDesc(_)
OrderByTimestampDesc(rows) ==
    IF rows = {} THEN <<>>
    ELSE LET top == CHOOSE r \in rows :
                        \A q \in rows : q.event_timestmp <= r.event_timestmp
         IN  <<top>> \o OrderByTimestampDesc(rows \ {top})

\* The loop over cursor.fetchall() of _get_last_ar_dates_for_reset.
RECURSIVE WalkRows(_, _)
WalkRows(rows, dates) ==
    IF rows = <<>> THEN dates
    ELSE LET row == Head(rows)
             d1 == IF ~HasKey(dates, "event_date") \/ dates.event_date < row.event_timestmp
                   THEN SetItem(dates, "event_date", row.event_timestmp)
                   ELSE dates
             d2 == IF row.period_end_dt # NULL
                      /\ (~HasKey(d1, "ar_date") \/ d1.ar_date < row.period_end_dt)
                   THEN SetItem(SetItem(d1, "ar_date", row.period_end_dt),
                                "ar_filed_date", row.event_timestmp)
                   ELSE d1
             d3 == IF row.agm_date # NULL
                      /\ (~HasKey(d2, "agm_date") \/ d2.agm_date < row.agm_date)
                   THEN SetItem(d2, "agm_date", row.agm_date)
                   ELSE d2
         IN  WalkRows(Tail(rows), d3)

\* Business._get_last_ar_dates_for_reset(cursor, event_info, event_ids)
GetLastArDatesForReset(event_rows, filing_rows, event_info, event_ids) ==
    LET by == EventsByCorpNum(event_info)
    IN  [i \in 1 .. Len(by) |->
            WalkRows(OrderByTimestampDesc(
                         SelectFilingRows(event_rows, filing_rows, event_ids, by[i].corp_num)),
                     [x \in {"corp_num"} |-> by[i].corp_num])]

\* The UPDATE of reset_corporations for one item of dates_by_corp_num.  Reading
\* a key the walk never set raises KeyError (agm_date is read first).
ItemRaises(item) ==
    \/ ~HasKey(item, "agm_date")
    \/ ~HasKey(item, "ar_filed_date")
    \/ ~HasKey(item, "event_date")

ResetCorporationRow(corp, item) ==
    [corp EXCEPT ![item.corp_num] =
        [last_ar_filed_dt |-> item.ar_filed_date,
         last_agm_date |-> IF item.agm_date # NULL THEN item.agm_date ELSE item.ar_date,
         last_ledger_dt |-> item.event_date]]

\* One pass of the loop of reset_corporations over dates_by_corp_num: an
\* exception (the KeyError, or the database's error for a corporation of
\* failing) is logged with the item's corp_num and raised again, which ends the
\* loop; rows updated before it stay updated.
ResetCorporationsStepContinues(acc, item, failing) ==
    IF ItemRaises(item)
    THEN [acc EXCEPT !.raised = "KeyError", !.failed_corp = item.corp_num]
    ELSE IF item.corp_num \in failing
    THEN [acc EXCEPT !.raised = "DatabaseError", !.failed_corp = item.corp_num]
    ELSE [acc EXCEPT !.corporation = ResetCorporationRow(@, item),
                     !.updated = Append(@, item.corp_num)]

ResetCorporationsStep(acc, item, failing) ==
    IF acc.raised # ""
    THEN acc
    ELSE IF ItemRaises(item)
    THEN [acc EXCEPT !.raised = "KeyError", !.failed_corp = item.corp_num]
    ELSE IF item.corp_num \in failing
    THEN [acc EXCEPT !.raised = "DatabaseError", !.failed_corp = item.corp_num]
    ELSE [acc EXCEPT !.corporation = ResetCorporationRow(@, item),
                     !.updated = Append(@, item.corp_num)]

RECURSIVE ResetCorporationsFrom(_, _, _)
ResetCorporationsFrom(items, acc, failing) ==
    IF items = <<>> THEN acc
    ELSE ResetCorporationsFrom(Tail(items),
                               ResetCorporationsStep(acc, Head(items), failing), failing)

\* Business.reset_corporations(cursor, event_info, event_ids) on a database
\* that fails the UPDATE of the corporations in failing.
ResetCorporations(corp, event_rows, filing_rows, event_info, event_ids, failing) ==
    LET start == [corporation |-> corp, raised |-> "", failed_corp |-> "",
                  updated |-> <<>>]
    IN  IF Len(event_info) < 1
        THEN start
        ELSE ResetCorporationsFrom(
                 GetLastArDatesForReset(event_rows, filing_rows, event_info, event_ids),
                 start, failing)

\* The dates a filing carries: an annual report has a period end date and may
\* have an AGM date; any other filing has neither.
FilingDates ==
    {<<NULL, NULL>>} \cup {<<pe, agm>> : pe \in Dates, agm \in Dates \cup {NULL}}

\* A filing is recorded: an EVENT row stamped with the clock, its FILING row, and
\* update_corporation(corp_num, date) with the filing's AGM date; the clock moves
\* on afterwards.  Filings are recorded until reset_corporations is called.
add_filing(corp_num, period_end_dt, agm_date) ==
    /\ next_event_id <= MaxEvents
    /\ ~last_reset.called
    /\ event' = event \cup {[event_id |-> next_event_id, corp_num |-> corp_num,
                             event_timestmp |-> sysdate]}
    /\ filing' = filing \cup {[event_id |-> next_event_id,
                               period_end_dt |-> period_end_dt, agm_date |-> agm_date]}
    /\ corporation' = UpdateCorporation(corporation, corp_num, agm_date, sysdate)
    /\ before_event' = Append(before_event, corporation[corp_num])
    /\ sysdate' = sysdate + 1
    /\ next_event_id' = next_event_id + 1
    /\ UNCHANGED last_reset
    /\ UNCHANGED corp_state_vars
    /\ UNCHANGED filings_vars
    /\ UNCHANGED other_vars

\* event_info for a set of events: their [corp_num, event_id] pairs, by
\* ascending event id.
RECURSIVE EventInfoOf(_, _)
EventInfoOf(events, event_ids) ==
    IF event_ids = {} THEN <<>>
    ELSE LET id == CHOOSE i \in event_ids : \A j \in event_ids : i <= j
             e == CHOOSE x \in events : x.event_id = id
         IN  <<[corp_num |-> e.corp_num, event_id |-> id]>>
             \o EventInfoOf(events, event_ids \ {id})

\* Business.reset_corporations(cursor, event_info, event_ids), called once on
\* the filing history (removing the undone events is the caller's work).
reset_corporations_failing(event_info, event_ids, failing) ==
    LET res == ResetCorporations(corporation, event, filing, event_info, event_ids,
                                 failing)
    IN  /\ ~last_reset.called
        /\ corporation' = res.corporation
        /\ last_reset' = [called |-> TRUE, event_info |-> event_info,
                          event_ids |-> event_ids, raised |-> res.raised,
                          failed_corp |-> res.failed_corp, updated |-> res.updated,
                          dates |-> GetLastArDatesForReset(event, filing, event_info, event_ids),
                          failing |-> failing]
        /\ UNCHANGED <<event, filing, sysdate, before_event, next_event_id>>
        /\ UNCHANGED corp_state_vars
        /\ UNCHANGED filings_vars
    /\ UNCHANGED other_vars

\* The call on a database that fails no UPDATE.
reset_corporations(event_info, event_ids) ==
    reset_corporations_failing(event_info, event_ids, {})

NextReset ==
    \/ \E c \in CorpNums, d \in FilingDates : add_filing(c, d[1], d[2])
    \/ \E first \in 1 .. next_event_id :
          LET ids == {e.event_id : e \in {x \in event : x.event_id >= first}}
          IN  reset_corporations(EventInfoOf(event, ids), ids)

SpecReset == Init /\ [][NextReset]_vars

\* The event ids of event_ids that belong to a corporation.
UndoneEventsOf(corp_num) ==
    {e.event_id : e \in {x \in event : x.corp_num = corp_num
                                        /\ x.event_id \in last_reset.event_ids}}

\* The filings of a corporation that a reset leaves in place.
RemainingFilingRows(corp_num) ==
    SelectFilingRows(event, filing, last_reset.event_ids, corp_num)

\* C4: reset_corporations called with the most recent events of a corporation
\* (whose three date fields update_corporation wrote at each filing event)
\* restores LAST_AR_FILED_DT, LAST_AGM_DATE and LAST_LEDGER_DT to the values they
\* held immediately before the earliest undone event.  Stated for the calls that
\* return; the calls that raise are C5's.
ResetRestoresCorporationDates ==
    (last_reset.called /\ last_reset.raised = "") =>
        \A c \in CorpNums :
            UndoneEventsOf(c) # {} =>
                LET earliest == CHOOSE e \in UndoneEventsOf(c) :
                                    \A f \in UndoneEventsOf(c) : e <= f
                IN  corporation[c] = before_event[earliest]

\* C5: for a corporation whose remaining filings carry no AGM date but at least
\* one period end date, the UPDATE of reset_corporations completes without error
\* and sets LAST_AGM_DATE to the recovered AR (period end) date.
ResetFallsBackToArDate ==
    last_reset.called =>
        \A c \in CorpNums :
            LET rows == RemainingFilingRows(c)
                ends == {r.period_end_dt : r \in rows} \ {NULL}
            IN  (/\ UndoneEventsOf(c) # {}
                 /\ \A r \in rows : r.agm_date = NULL
                 /\ ends # {})
                => /\ last_reset.raised = ""
                   /\ \E d \in ends : /\ \A x \in ends : x <= d
                                      /\ corporation[c].last_agm_date = d

\* reset_corporations on a database that may fail the UPDATE of some
\* corporations; the filings are annual reports with the AGM on the period end
\* date and filings without dates.
BatchFilingDates == {d \in FilingDates : d[1] = d[2]}

NextResetBatch ==
    \/ \E c \in CorpNums, d \in BatchFilingDates : add_filing(c, d[1], d[2])
    \/ \E first \in 1 .. next_event_id, failing \in SUBSET CorpNums :
          LET ids == {e.event_id : e \in {x \in event : x.event_id >= first}}
          IN  reset_corporations_failing(EventInfoOf(event, ids), ids, failing)

SpecResetBatch == Init /\ [][NextResetBatch]_vars

\* The batch of a reset_corporations call: the corp_nums in the order of
\* dates_by_corp_num, and the index of the first one whose UPDATE fails (0 when
\* none does).
BatchOf(reset) == [i \in 1 .. Len(reset.dates) |-> reset.dates[i].corp_num]

UpdateFails(reset, i) ==
    \/ ~HasKey(reset.dates[i], "agm_date")
    \/ ~HasKey(reset.dates[i], "ar_filed_date")
    \/ ~HasKey(reset.dates[i], "event_date")
    \/ reset.dates[i].corp_num \in reset.failing

FirstFailure(reset) ==
    IF \E i \in 1 .. Len(reset.dates) : UpdateFails(reset, i)
    THEN CHOOSE i \in 1 .. Len(reset.dates) :
             /\ UpdateFails(reset, i)
             /\ \A j \in 1 .. i - 1 : ~UpdateFails(reset, j)
    ELSE 0

\* C18: in reset_corporations over a batch of several corp_nums, if the UPDATE
\* for one corp_num fails, the failure is logged with that corp_num and
\* re-raised, no corporation later in the batch is updated, and corporations
\* updated earlier in the batch keep their new values.
FailedUpdateAbortsBatch ==
    [][(~last_reset.called /\ last_reset'.called /\ FirstFailure(last_reset') > 0) =>
          LET reset == last_reset'
              batch == BatchOf(reset)
              k == FirstFailure(reset)
          IN  /\ reset.raised # ""
              /\ reset.failed_corp = batch[k]
              /\ \A i \in k .. Len(batch) : corporation'[batch[i]] = corporation[batch[i]]
              /\ \A i \in 1 .. k - 1 :
                    /\ corporation'[batch[i]].last_ar_filed_dt = reset.dates[i].ar_filed_date
                    /\ corporation'[batch[i]].last_agm_date = reset.dates[i].agm_date
                    /\ corporation'[batch[i]].last_ledger_dt = reset.dates[i].event_date
              /\ \A c \in CorpNums :
                    (\A i \in 1 .. Len(batch) : batch[i] # c)
                        => corporation'[c] = corporation[c]]_vars

\* A batch of two corporations: the first was updated, the second one's UPDATE
\* failed.
SecondOfBatchFailed ==
    /\ last_reset.called
    /\ Len(last_reset.dates) = 2
    /\ last_reset.raised # ""
    /\ last_reset.updated = <<last_reset.dates[1].corp_num>>
    /\ last_reset.failed_corp = last_reset.dates[2].corp_num
    /\ corporation[last_reset.dates[1].corp_num].last_ledger_dt
          = last_reset.dates[1].event_date

\* ------------------------------------------------- legal-api submissions
\* HTTPStatus values the handler answers with.
OK == 200
CREATED == 201
ACCEPTED == 202
BAD_REQUEST == 400
UNAUTHORIZED == 401
PAYMENT_REQUIRED == 402
FORBIDDEN == 403
NOT_FOUND == 404
INTERNAL_SERVER_ERROR == 500


\* Business identifiers of the URL: CP1 is a business, CP9 is none.
Identifiers == {"CP1", "CP9"}
Businesses == {"CP1"}

\* Invoice ids the payment service answers with.
InvoiceIds == {71, 72}

\* The filing types validation.validate knows a validator for.
KnownFilings == {"annualReport", "changeOfAddress", "changeOfDirectors"}

\* A filing JSON document, as far as the checks read it: whether it conforms to
\* the filing schema, the keys of its "filing" section in document order, and
\* the filing types whose own validator reports an error for it.
FilingDoc(schema_valid, keys, failing) ==
    [empty |-> FALSE, schema_valid |-> schema_valid, keys |-> keys, failing |-> failing]

\* validation.validate(business, filing_json): "" for no error, "schema" for the
\* schema's error, else the filing type whose validator reported the error.
RECURSIVE ValidateKeys(_, _)
ValidateKeys(keys, doc) ==
    IF keys = <<>> THEN ""
    ELSE IF Head(keys) \in KnownFilings /\ Head(keys) \in doc.failing
         THEN Head(keys)
         ELSE ValidateKeys(Tail(keys), doc)

ValidateSchemaLast(doc) ==
    IF ValidateKeys(doc.keys, doc) # "" THEN ValidateKeys(doc.keys, doc)
    ELSE IF ~doc.schema_valid THEN "schema" ELSE ""

Validate(doc) ==
    IF ~doc.schema_valid THEN "schema" ELSE ValidateKeys(doc.keys, doc)

\* str.lower() on the values the draft parameter takes.
LowerIdentity(str) == str

Lower(str) ==
    CASE str = "True" -> "true"
      [] str = "TRUE" -> "true"
      [] OTHER -> str

\* ListFilingResource._put_basic_checks: the error reply, or NULL for none.
PutBasicChecks(req) ==
    IF req.doc.empty THEN BAD_REQUEST
    ELSE IF req.filing_id # NULL /\ req.method # "PUT" THEN FORBIDDEN
    ELSE NULL

\* ListFilingResource._validate_filing_json: rsbc_schemas.validate alone decides.
ValidateFilingJsonAlwaysValid(req) == OK

ValidateFilingJson(req) ==
    IF req.doc.schema_valid THEN OK ELSE BAD_REQUEST

\* ListFilingResource._save_filing: the rows afterwards, the saved row's id and
\* the error code (NULL for none).  Filing.save() either persists the row or
\* raises a BusinessException carrying a status code.
SaveFiling(rows, new_id, req) ==
    IF req.doc.empty
    THEN [filings |-> rows, filing_id |-> NULL, err_code |-> BAD_REQUEST]
    ELSE IF req.identifier \notin Businesses
    THEN [filings |-> rows, filing_id |-> NULL, err_code |-> NOT_FOUND]
    ELSE IF req.method = "PUT"
            /\ ~\E r \in rows : r.business = req.identifier /\ r.id = req.filing_id
    THEN [filings |-> rows, filing_id |-> NULL, err_code |-> NOT_FOUND]
    ELSE IF req.save_raises # NULL
    THEN [filings |-> rows, filing_id |-> NULL, err_code |-> req.save_raises]
    ELSE IF req.method = "PUT"
    THEN [filings |-> {IF r.id = req.filing_id
                          THEN [r EXCEPT !.filing_json = req.doc] ELSE r : r \in rows},
          filing_id |-> req.filing_id, err_code |-> NULL]
    ELSE [filings |-> rows \cup {[id |-> new_id, business |-> req.identifier,
                                  filing_json |-> req.doc, payment_token |-> NULL]},
          filing_id |-> new_id, err_code |-> NULL]

\* ListFilingResource._create_invoice: one requests.post to the payment service;
\* a ConnectionError gives the PAYMENT_REQUIRED error, else the id of the answer
\* is stored as payment_token and the row is saved.
CreateInvoiceTokenOnError(rows, filing_id, req) ==
    [filings |-> {IF r.id = filing_id
                     THEN [r EXCEPT !.payment_token = req.invoice_id] ELSE r : r \in rows},
     err_code |-> IF req.payment = "connection_error" THEN PAYMENT_REQUIRED ELSE NULL,
     calls |-> 1]

CreateInvoice(rows, filing_id, req) ==
    IF req.payment = "connection_error"
    THEN [filings |-> rows, err_code |-> PAYMENT_REQUIRED, calls |-> 1]
    ELSE [filings |-> {IF r.id = filing_id
                          THEN [r EXCEPT !.payment_token = req.invoice_id] ELSE r : r \in rows},
          err_code |-> NULL, calls |-> 1]

\* The reply to a submission and what it did.
Reply(req, rows, code, body, steps, failed, saved_id, calls) ==
    [filings |-> rows,
     put |-> [method |-> req.method, filing_id |-> req.filing_id, draft |-> req.draft,
              doc |-> req.doc, code |-> code, body |-> body, steps |-> steps,
              failed |-> failed, saved_id |-> saved_id, payment_calls |-> calls,
              payment |-> IF calls = 0 THEN "" ELSE req.payment,
              invoice_id |-> IF calls = 0 \/ req.payment = "connection_error"
                             THEN NULL ELSE req.invoice_id]]

\* ListFilingResource.post / ListFilingResource.put behind @jwt.requires_auth.
\* A PUT routed without a filing id calls put() without its filing_id argument:
\* a TypeError, answered as a server error before any of put's statements.
Put(rows, new_id, req) ==
    IF ~req.jwt_valid
    THEN Reply(req, rows, UNAUTHORIZED, "message", <<>>, "requires_auth", NULL, 0)
    ELSE IF req.method = "PUT" /\ req.filing_id = NULL
    THEN Reply(req, rows, INTERNAL_SERVER_ERROR, "message", <<>>, "dispatch", NULL, 0)
    ELSE IF PutBasicChecks(req) # NULL
    THEN Reply(req, rows, PutBasicChecks(req), "message",
               <<"basic_checks">>, "basic_checks", NULL, 0)
    ELSE IF ~req.authorized
    THEN Reply(req, rows, UNAUTHORIZED, "message",
               <<"basic_checks", "authorized">>, "authorized", NULL, 0)
    ELSE IF ValidateFilingJson(req) # OK
    THEN Reply(req, rows, ValidateFilingJson(req), "errors",
               <<"basic_checks", "authorized", "validate">>, "validate", NULL, 0)
    ELSE IF req.only_validate = "true"
    THEN Reply(req, rows, OK, "message",
               <<"basic_checks", "authorized", "validate">>, "", NULL, 0)
    ELSE LET sv == SaveFiling(rows, new_id, req)
             inv == CreateInvoice(sv.filings, sv.filing_id, req)
             done == IF req.method = "POST" THEN CREATED ELSE ACCEPTED
         IN  IF sv.err_code # NULL
             THEN Reply(req, sv.filings, sv.err_code, "message",
                        <<"basic_checks", "authorized", "validate", "save">>,
                        "save", NULL, 0)
             ELSE IF req.draft = "" \/ Lower(req.draft) # "true"
             THEN IF inv.err_code # NULL
                  THEN Reply(req, inv.filings, inv.err_code, "filing+errors",
                             <<"basic_checks", "authorized", "validate", "save",
                               "create_invoice">>,
                             "create_invoice", sv.filing_id, inv.calls)
                  ELSE Reply(req, inv.filings, done, "filing",
                             <<"basic_checks", "authorized", "validate", "save",
                               "create_invoice">>,
                             "", sv.filing_id, inv.calls)
             ELSE Reply(req, sv.filings, done, "filing",
                        <<"basic_checks", "authorized", "validate", "save">>,
                        "", sv.filing_id, 0)

\* The documents submitted: an annual report that passes every check, one that
\* conforms to the schema but fails the annual report validator, and one that
\* does not conform to the schema.
SubmittedDocs ==
    {FilingDoc(TRUE, <<"header", "annualReport">>, {}),
     FilingDoc(TRUE, <<"header", "annualReport">>, {"annualReport"}),
     FilingDoc(FALSE, <<"header">>, {})}

\* How far the handler gets in reading a request (the filing rows aside):
\* 0 the token check, 1 the dispatch to put, 2 the basic checks, 3 the
\* authorization, 4 the validation, 5 the save, 6 the draft parameter, 7 the
\* payment call, 8 the payment service's answer.
ReadsUpTo(req) ==
    IF ~req.jwt_valid THEN 0
    ELSE IF req.method = "PUT" /\ req.filing_id = NULL THEN 1
    ELSE IF PutBasicChecks(req) # NULL THEN 2
    ELSE IF ~req.authorized THEN 3
    ELSE IF ValidateFilingJson(req) # OK \/ req.only_validate = "true" THEN 4
    ELSE IF req.identifier \notin Businesses \/ req.save_raises # NULL THEN 5
    ELSE IF req.draft # "" /\ Lower(req.draft) = "true" THEN 6
    ELSE IF req.payment = "connection_error" THEN 7
    ELSE 8

\* What a request and its surroundings bring: NoJson stands for an absent or
\* empty body, "" for an absent query parameter, NULL for an absent filing id
\* or no exception.  What the handler does not get to read is left at one value.
Requests ==
    {req \in [method : {"POST", "PUT"},
              identifier : Identifiers,
              filing_id : {NULL} \cup (1 .. MaxFilingRows),
              doc : {NoJson} \cup SubmittedDocs,
              jwt_valid : BOOLEAN,
              authorized : BOOLEAN,
              only_validate : {"", "true"},
              draft : {"", "true", "True", "false"},
              save_raises : {NULL, FORBIDDEN},
              payment : {"connection_error", "answered"},
              invoice_id : {NULL} \cup InvoiceIds] :
        LET n == ReadsUpTo(req)
        IN  /\ n < 1 => req.method = "POST" /\ req.filing_id = NULL /\ req.doc = NoJson
            /\ n < 3 => req.authorized
            /\ n < 4 => req.only_validate = ""
            /\ n < 5 => req.identifier \in Businesses /\ req.save_raises = NULL
            /\ req.identifier \notin Businesses => req.save_raises = NULL
            /\ n < 6 => req.draft = ""
            /\ n < 7 => req.payment = "answered"
            /\ n < 8 => req.invoice_id = NULL}

\* One POST or PUT to /businesses/{identifier}/filings[/{filing_id}].
put(req) ==
    /\ req.method = "POST" => next_filing_id <= MaxFilingRows
    /\ LET res == Put(filings, next_filing_id, req)
       IN  /\ filings' = res.filings
           /\ last_put' = res.put
           /\ next_filing_id' = IF \E r \in res.filings : r.id = next_filing_id
                                THEN next_filing_id + 1 ELSE next_filing_id
    /\ before_put' = filings
    /\ UNCHANGED other_vars
    /\ UNCHANGED next_event_id
    /\ UNCHANGED corp_state_vars
    /\ UNCHANGED corporation_vars

NextFilings == \E req \in Requests : put(req)

SpecFilings == Init /\ [][NextFilings]_vars

\* The Filing row a submission saved, and the payment token a row had before it.
SavedRow == CHOOSE r \in filings : r.id = last_put.saved_id

TokenBefore(id) ==
    IF \E r \in before_put : r.id = id
    THEN (CHOOSE r \in before_put : r.id = id).payment_token
    ELSE NULL

\* The values of the draft parameter that mark a draft: "true" in any case.
DraftTrue == {"true", "True", "TRUE"}

\* The order of the handler's steps.
StepOrder == <<"basic_checks", "authorized", "validate", "save", "create_invoice">>

IsPrefix(s, t) == Len(s) <= Len(t) /\ \A i \in 1 .. Len(s) : s[i] = t[i]

\* The payment call failed to connect: 402 with the filing JSON plus an errors
\* list, and the Filing row saved in the request is still there.
ConnectionErrorReply ==
    /\ last_put.code = PAYMENT_REQUIRED
    /\ last_put.body = "filing+errors"
    /\ \E r \in filings : r.id = last_put.saved_id /\ r.filing_json = last_put.doc

\* C6: when the payment-service call raises a connection error the response is
\* 402 with the filing JSON plus an errors list, and the Filing row saved
\* earlier in the request stays persisted with its payment token left unset:
\* the request sets no token, so a row the request created has none and a row
\* it updated keeps what it had.
ConnectionErrorSetsNoToken ==
    last_put.payment = "connection_error" =>
        /\ ConnectionErrorReply
        /\ SavedRow.payment_token = TokenBefore(last_put.saved_id)
        /\ last_put.method = "POST" => SavedRow.payment_token = NULL

\* A POST created a Filing row and its payment call failed to connect.
ConnectionErrorAfterNewFiling ==
    /\ last_put.payment = "connection_error"
    /\ last_put.method = "POST"
    /\ \E r \in filings \ before_put : r.id = last_put.saved_id

SavedFilingsPassedValidation ==
    \A r \in filings :
        /\ r.filing_json.schema_valid
        /\ Validate(r.filing_json) = ""

\* C9: a submission rejected by the basic checks (400/403), the authorization
\* (401) or the schema validation (400, body {"errors": [...]}) saves no Filing
\* row and makes no payment call; the checks run in the order basic checks,
\* authorization, validation, and save and invoice come only after all three.
RejectedSubmissionHasNoEffect ==
    /\ IsPrefix(last_put.steps, StepOrder)
    /\ last_put.failed \in {"basic_checks", "authorized", "validate"} =>
          /\ filings = before_put
          /\ last_put.saved_id = NULL
          /\ last_put.payment_calls = 0
          /\ Len(last_put.steps) <= 3
    /\ last_put.failed = "basic_checks" => last_put.code \in {BAD_REQUEST, FORBIDDEN}
    /\ last_put.failed = "authorized" => last_put.code = UNAUTHORIZED
    /\ last_put.failed = "validate" =>
          last_put.code = BAD_REQUEST /\ last_put.body = "errors"
    /\ (last_put.doc.empty \/ ~last_put.doc.schema_valid) =>
          /\ filings = before_put
          /\ last_put.payment_calls = 0

\* A document that does not conform to the schema was rejected while Filing
\* rows exist.
SchemaRejected ==
    /\ last_put.failed = "validate"
    /\ last_put.code = BAD_REQUEST
    /\ ~last_put.doc.schema_valid
    /\ filings # {}

\* C10: a PUT that carries a JSON body but no filing id is rejected as
\* forbidden (403), and no Filing row is created or modified.
PutWithoutFilingIdIsForbidden ==
    (last_put.method = "PUT" /\ last_put.filing_id = NULL /\ ~last_put.doc.empty) =>
        /\ last_put.code = FORBIDDEN
        /\ filings = before_put

\* An authenticated PUT with a JSON body and no filing id was answered.
PutWithoutFilingIdAnswered ==
    /\ last_put.method = "PUT"
    /\ last_put.filing_id = NULL
    /\ ~last_put.doc.empty
    /\ last_put.code = INTERNAL_SERVER_ERROR

\* ------------------------------------------------ legal-api InternalFilings
\* Filing.status values and the colin event ids a PATCH carries.
Statuses == {"PENDING", "COMPLETED"}
ColinIds == {901}

\* The Filing rows with the two columns the internal endpoints use.
FilingTable ==
    {[id |-> r.id, status |-> filing_status[r.id],
      colin_event_id |-> colin_event_id[r.id]] : r \in filings}

\* InternalFilings.get: the query filter(Filing.colin_event_id == None,
\* Filing.status == 'COMPLETED'); the ids of the filings whose JSON is returned.
InternalGetByStatusOnly(rows) ==
    {r.id : r \in {x \in rows : x.status = "COMPLETED"}}

InternalGet(rows) ==
    {r.id : r \in {x \in rows : x.colin_event_id = NULL /\ x.status = "COMPLETED"}}

\* InternalFilings.patch behind @jwt.requires_auth: the reply code and the
\* colin_event_id column afterwards.  An empty body returns a 4-tuple, which
\* the framework cannot unpack, and a body without 'colinId' raises KeyError:
\* both are answered as server errors.  Filing.save() persists or raises a
\* BusinessException carrying a status code.
InternalPatch(rows, colin, req) ==
    IF ~req.jwt_valid
    THEN [code |-> UNAUTHORIZED, colin_event_id |-> colin]
    ELSE IF req.body \in {"empty", "no_colin_id"}
    THEN [code |-> INTERNAL_SERVER_ERROR, colin_event_id |-> colin]
    ELSE IF ~\E r \in rows : r.id = req.filing_id
    THEN [code |-> NOT_FOUND, colin_event_id |-> colin]
    ELSE IF req.save_raises # NULL
    THEN [code |-> req.save_raises, colin_event_id |-> colin]
    ELSE [code |-> ACCEPTED,
          colin_event_id |-> [colin EXCEPT ![req.filing_id] = req.colin_id]]

\* The PATCH requests: what is not read is left at one value.
PatchRequests ==
    {req \in [jwt_valid : BOOLEAN,
              filing_id : FilingIds,
              body : {"empty", "no_colin_id", "colin_id"},
              colin_id : {NULL} \cup ColinIds,
              save_raises : {NULL, FORBIDDEN}] :
        /\ ~req.jwt_valid => req.body = "empty"
        /\ req.body # "colin_id" => req.colin_id = NULL /\ req.save_raises = NULL}

\* The submissions that create the Filing rows of the internal endpoints' runs.
NewFilingRequests ==
    {req \in Requests : req.method = "POST" /\ ReadsUpTo(req) = 8
                        /\ req.draft = "" /\ Validate(req.doc) = ""
                        /\ req.invoice_id = CHOOSE id \in InvoiceIds : TRUE}

\* GET /internal/filings
internal_get ==
    /\ last_get' = [called |-> TRUE, ids |-> InternalGet(FilingTable),
                    after_attach |-> \E r \in FilingTable :
                                        /\ r.id \in attached
                                        /\ r.colin_event_id # NULL
                                        /\ r.status = "COMPLETED"]
    /\ UNCHANGED <<filing_status, colin_event_id, last_patch, attached>>
    /\ UNCHANGED lookup_vars
    /\ UNCHANGED stmt_vars
    /\ UNCHANGED next_event_id
    /\ UNCHANGED corp_state_vars
    /\ UNCHANGED corporation_vars
    /\ UNCHANGED filings_vars

\* PATCH /internal/filings/<filing_id>
internal_patch(req) ==
    LET res == InternalPatch(filings, colin_event_id, req)
    IN  /\ colin_event_id' = res.colin_event_id
        /\ last_patch' = [filing_id |-> req.filing_id, body |-> req.body,
                          colin_id |-> req.colin_id, code |-> res.code]
        /\ attached' = IF res.code = ACCEPTED
                       THEN IF req.colin_id # NULL
                            THEN attached \cup {req.filing_id}
                            ELSE attached
                       ELSE attached
    /\ UNCHANGED <<filing_status, last_get>>
    /\ UNCHANGED lookup_vars
    /\ UNCHANGED stmt_vars
    /\ UNCHANGED next_event_id
    /\ UNCHANGED corp_state_vars
    /\ UNCHANGED corporation_vars
    /\ UNCHANGED filings_vars

\* Filing.status of a row changes (payment completion, filing processing).
set_filing_status(id, status) ==
    /\ \E r \in filings : r.id = id
    /\ filing_status[id] # status
    /\ filing_status' = [filing_status EXCEPT ![id] = status]
    /\ UNCHANGED <<colin_event_id, last_get, last_patch, attached>>
    /\ UNCHANGED lookup_vars
    /\ UNCHANGED stmt_vars
    /\ UNCHANGED next_event_id
    /\ UNCHANGED corp_state_vars
    /\ UNCHANGED corporation_vars
    /\ UNCHANGED filings_vars

NextInternal ==
    \/ \E req \in NewFilingRequests : put(req)
    \/ \E id \in FilingIds, status \in Statuses : set_filing_status(id, status)
    \/ internal_get
    \/ \E req \in PatchRequests : internal_patch(req)

SpecInternal == Init /\ [][NextInternal]_vars

\* A GET /internal/filings returns exactly the filings that are COMPLETED
\* without a colin_event_id when it runs.
GetReturnsPending ==
    last_get'.ids = {r.id : r \in {x \in FilingTable :
                                     x.status = "COMPLETED" /\ x.colin_event_id = NULL}}

\* C11 (as stated): GET /internal/filings returns exactly the filings whose
\* status is COMPLETED and whose colin_event_id is null; once a PATCH has
\* attached a non-null colinId to a filing, that filing is absent from the
\* result of every later GET /internal/filings.
AttachedFilingNeverReturned ==
    [][internal_get => (GetReturnsPending /\ last_get'.ids \cap attached = {})]_vars

\* C11 (amended): ... once a PATCH has attached a non-null colinId to a filing,
\* that filing is absent from the result of every later GET for as long as no
\* later PATCH has set its colin_event_id back to null.
AttachedFilingNotReturnedWhileAttached ==
    [][internal_get =>
          /\ GetReturnsPending
          /\ \A id \in attached :
                colin_event_id[id] # NULL => id \notin last_get'.ids]_vars

\* A GET ran after a PATCH attached a colin id to a COMPLETED filing, while
\* another filing was pending.
GetAfterAttach ==
    /\ last_get.called
    /\ last_get.after_attach
    /\ last_get.ids # {}

\* ------------------------------------------- Business.find_by_identifier
\* What the database holds about a corporation, as far as find_by_identifier's
\* query reads it: the CORPORATION row, the state_typ_cd of its active
\* CORP_STATE row ("" for none), whether it has EVENT rows, and the columns of
\* its JURISDICTION row ("" where there is none).
DbCorporations ==
    [corp_num : {"CP1"},
     corp_typ_cd : {"CP", "XCP"},
     state_typ_cd : StateTypCds \cup {""},
     has_event : BOOLEAN,
     last_ar_filed_date : {NULL} \cup Dates,
     last_agm_date : {NULL} \cup Dates,
     can_jur_typ_cd : {"", "AB", "OT"},
     othr_juris_desc : {"", "IDAHO"}]

\* corp_op_state.full_desc of a state_typ_cd (join CORP_OP_STATE).
CorpOpState(state_typ_cd) ==
    CASE state_typ_cd = "ACT" -> "Active"
      [] state_typ_cd = "HIS" -> "Historical"
      [] OTHER -> ""

\* The query of find_by_identifier: whether fetchone() gives a row for the
\* identifier.  The joins on CORP_STATE, CORP_OP_STATE and EVENT are inner
\* joins, and the where clause keeps corp_typ_cd = 'CP' only.
SelectBusinessAnyIdentifier(row, identifier) ==
    /\ row.corp_typ_cd = "CP"
    /\ row.state_typ_cd # ""
    /\ row.has_event

SelectBusiness(row, identifier) ==
    /\ row.corp_num = identifier
    /\ row.corp_typ_cd = "CP"
    /\ row.state_typ_cd # ""
    /\ row.has_event

\* business['jurisdiction']
Jurisdiction(row) ==
    IF row.corp_typ_cd = "XCP"
    THEN IF row.can_jur_typ_cd = "OT" THEN row.othr_juris_desc ELSE row.can_jur_typ_cd
    ELSE "BC"

\* business['status']; the date columns come back as datetime values or None.
StatusNotEarlier(row) ==
    IF /\ CorpOpState(row.state_typ_cd) = "Active"
       /\ row.last_ar_filed_date # NULL
       /\ row.last_agm_date # NULL
    THEN IF row.last_ar_filed_date >= row.last_agm_date
         THEN "In Good Standing"
         ELSE CorpOpState(row.state_typ_cd)
    ELSE CorpOpState(row.state_typ_cd)

Status(row) ==
    IF /\ CorpOpState(row.state_typ_cd) = "Active"
       /\ row.last_ar_filed_date # NULL
       /\ row.last_agm_date # NULL
    THEN IF row.last_ar_filed_date > row.last_agm_date
         THEN "In Good Standing"
         ELSE CorpOpState(row.state_typ_cd)
    ELSE CorpOpState(row.state_typ_cd)

\* Business.find_by_identifier(identifier) on a database holding row: None for
\* a missing identifier, BusinessNotFoundException (logged by the catch-all
\* handler and raised again) when the query gives no row, else the Business.
FindByIdentifier(identifier, row) ==
    IF identifier = ""
    THEN [NoFind EXCEPT !.called = TRUE, !.identifier = identifier, !.row = row,
                        !.outcome = "none"]
    ELSE IF ~SelectBusiness(row, identifier)
    THEN [NoFind EXCEPT !.called = TRUE, !.identifier = identifier, !.row = row,
                        !.outcome = "raised",
                        !.exception = "BusinessNotFoundException",
                        !.logged = TRUE]
    ELSE [NoFind EXCEPT !.called = TRUE, !.identifier = identifier, !.row = row,
                        !.outcome = "returned",
                        !.business = [identifier |-> row.corp_num,
                                      legalType |-> row.corp_typ_cd,
                                      jurisdiction |-> Jurisdiction(row),
                                      status |-> Status(row)]]

find_by_identifier(identifier, row) ==
    /\ last_find' = FindByIdentifier(identifier, row)
    /\ UNCHANGED last_validate
    /\ UNCHANGED internal_vars
    /\ UNCHANGED stmt_vars
    /\ UNCHANGED next_event_id
    /\ UNCHANGED corp_state_vars
    /\ UNCHANGED corporation_vars
    /\ UNCHANGED filings_vars

NextFind ==
    \E identifier \in {"", "CP1", "CP9"}, row \in DbCorporations :
        find_by_identifier(identifier, row)

SpecFind == Init /\ [][NextFind]_vars

\* C12: find_by_identifier sets the status to "In Good Standing" exactly when
\* the state description is "Active", the last-AR-filed date and the last-AGM
\* date are both present and the former is strictly later; in every other case
\* (equal dates, a missing date) the status is the raw state description.
GoodStandingRule ==
    last_find.outcome = "returned" =>
        LET row == last_find.row
            state == CorpOpState(row.state_typ_cd)
            good == /\ state = "Active"
                    /\ row.last_ar_filed_date # NULL
                    /\ row.last_agm_date # NULL
                    /\ row.last_agm_date < row.last_ar_filed_date
        IN  /\ good => last_find.business.status = "In Good Standing"
            /\ ~good => last_find.business.status = state

\* An Active corporation with equal dates was resolved to "Active".
EqualDatesKeepRawState ==
    /\ last_find.outcome = "returned"
    /\ last_find.row.state_typ_cd = "ACT"
    /\ last_find.row.last_ar_filed_date # NULL
    /\ last_find.row.last_ar_filed_date = last_find.row.last_agm_date
    /\ last_find.business.status = "Active"

\* C13: for every foreign (type XCP) corporation in the database
\* find_by_identifier returns a business whose jurisdiction is the other-
\* jurisdiction description when its jurisdiction code is "OT" and its
\* jurisdiction code otherwise; for every domestic corporation it returns
\* jurisdiction "BC".
ForeignJurisdictionResolved ==
    (/\ last_find.called
     /\ last_find.identifier = "CP1"
     /\ last_find.row.state_typ_cd # ""
     /\ last_find.row.has_event) =>
        /\ last_find.outcome = "returned"
        /\ last_find.business.jurisdiction =
              IF last_find.row.corp_typ_cd = "XCP"
              THEN IF last_find.row.can_jur_typ_cd = "OT"
                   THEN last_find.row.othr_juris_desc
                   ELSE last_find.row.can_jur_typ_cd
              ELSE "BC"

\* A foreign corporation with an active state and events was looked up.
ForeignLookedUp ==
    /\ last_find.called
    /\ last_find.identifier = "CP1"
    /\ last_find.row.corp_typ_cd = "XCP"
    /\ last_find.row.state_typ_cd # ""
    /\ last_find.row.has_event
    /\ last_find.outcome = "raised"

\* The query gives no row for the identifier of the call.
NoRowMatches ==
    /\ last_find.called
    /\ ~(/\ last_find.row.corp_num = last_find.identifier
         /\ last_find.row.corp_typ_cd = "CP"
         /\ last_find.row.state_typ_cd # ""
         /\ last_find.row.has_event)

\* C14 (as stated): find_by_identifier called with an identifier that matches
\* no corporation row raises BusinessNotFoundException and never returns a
\* Business object; the failure is logged and re-raised unchanged.
UnknownIdentifierRaises ==
    NoRowMatches =>
        /\ last_find.outcome = "raised"
        /\ last_find.exception = "BusinessNotFoundException"
        /\ last_find.logged
        /\ last_find.business = <<>>

\* C14 (amended): ... called with a non-empty identifier that matches no
\* corporation row raises BusinessNotFoundException, logged and re-raised
\* unchanged; called with an empty or missing identifier it returns None
\* without raising or logging.  In neither case is a Business object returned.
UnknownIdentifierRaisesUnlessEmpty ==
    NoRowMatches =>
        /\ last_find.business = <<>>
        /\ last_find.identifier # "" =>
              /\ last_find.outcome = "raised"
              /\ last_find.exception = "BusinessNotFoundException"
              /\ last_find.logged
        /\ last_find.identifier = "" =>
              /\ last_find.outcome = "none"
              /\ last_find.exception = ""
              /\ ~last_find.logged

\* An identifier no corporation has was looked up and the call raised.
UnknownIdentifierLookedUp ==
    /\ last_find.called
    /\ last_find.identifier = "CP9"
    /\ last_find.outcome = "raised"
    /\ last_find.row.corp_typ_cd = "CP"
    /\ last_find.row.state_typ_cd # ""
    /\ last_find.row.has_event

\* ------------------------------------------------- validation.validate
\* Keys of a document's "filing" section: the header, the three filing types
\* with a validator and a filing type the registry does not know.
FilingKeys ==
    {"header", "annualReport", "changeOfAddress", "changeOfDirectors", "unknownFiling"}

\* The key sequences of a JSON object (no key twice) of up to three keys.
KeySeqs ==
    {<<>>}
    \cup {<<a>> : a \in FilingKeys}
    \cup {ks \in {<<a, b>> : a \in FilingKeys, b \in FilingKeys} : ks[1] # ks[2]}
    \cup {ks \in {<<a, b, c>> : a \in FilingKeys, b \in FilingKeys, c \in FilingKeys} :
            ks[1] # ks[2] /\ ks[1] # ks[3] /\ ks[2] # ks[3]}

ValidateDocs ==
    {FilingDoc(v, ks, f) : v \in BOOLEAN, ks \in KeySeqs, f \in SUBSET KnownFilings}

\* The per-type validators validate invokes, in the order it invokes them: the
\* loop over filing_json['filing'].keys() returns at the first error.
RECURSIVE ValidatorCalls(_, _)
ValidatorCalls(keys, doc) ==
    IF keys = <<>> THEN <<>>
    ELSE IF Head(keys) \in KnownFilings
         THEN IF Head(keys) \in doc.failing
              THEN <<Head(keys)>>
              ELSE <<Head(keys)>> \o ValidatorCalls(Tail(keys), doc)
         ELSE ValidatorCalls(Tail(keys), doc)

\* The keys in the order annualReport, changeOfAddress, changeOfDirectors.
CanonicalOrder(keys) ==
    SelectSeq(<<"annualReport", "changeOfAddress", "changeOfDirectors">>,
              LAMBDA k : \E i \in DOMAIN keys : keys[i] = k)

\* What validate calls: validate_against_schema, then the validators.
ValidateStepsCanonicalOrder(doc) ==
    <<"schema">> \o
        (IF doc.schema_valid THEN ValidatorCalls(CanonicalOrder(doc.keys), doc) ELSE <<>>)

ValidateSteps(doc) ==
    <<"schema">> \o (IF doc.schema_valid THEN ValidatorCalls(doc.keys, doc) ELSE <<>>)

\* validate(business, filing_json): the error returned and the calls made.
ValidateResultRejectsUnknown(doc) ==
    [called |-> TRUE, doc |-> doc,
     err |-> IF Validate(doc) = "" /\ ValidateSteps(doc) = <<"schema">>
             THEN "unknown" ELSE Validate(doc),
     steps |-> ValidateSteps(doc)]

ValidateResult(doc) ==
    [called |-> TRUE, doc |-> doc, err |-> Validate(doc), steps |-> ValidateSteps(doc)]

validate(doc) ==
    /\ last_validate' = ValidateResult(doc)
    /\ UNCHANGED last_find
    /\ UNCHANGED internal_vars
    /\ UNCHANGED stmt_vars
    /\ UNCHANGED next_event_id
    /\ UNCHANGED corp_state_vars
    /\ UNCHANGED corporation_vars
    /\ UNCHANGED filings_vars

NextValidate == \E doc \in ValidateDocs : validate(doc)

SpecValidate == Init /\ [][NextValidate]_vars

\* The validators invoked, and the known filing-type keys in document order.
ValidatorsInvoked == Tail(last_validate.steps)

KnownKeysInOrder == SelectSeq(last_validate.doc.keys, LAMBDA k : k \in KnownFilings)

\* C15: validate checks the document against the filing schema before
\* anything else; whenever that check returns an error, validate returns that
\* same error and invokes no per-filing-type validator.
SchemaErrorShortCircuits ==
    last_validate.called =>
        /\ Head(last_validate.steps) = "schema"
        /\ ~last_validate.doc.schema_valid =>
              /\ last_validate.err = "schema"
              /\ ValidatorsInvoked = <<>>

\* A document that fails the schema and would fail a validator was validated.
SchemaInvalidValidated ==
    /\ last_validate.called
    /\ ~last_validate.doc.schema_valid
    /\ \E i \in DOMAIN last_validate.doc.keys :
          last_validate.doc.keys[i] \in last_validate.doc.failing
    /\ last_validate.err = "schema"

\* C16: for a schema-valid document validate invokes the validator of each
\* known filing-type key in the order the keys appear in the document, returns
\* the error of the first validator (in that order) that reports one, and
\* invokes no validator for any later key.
ValidatorsRunInDocumentOrder ==
    (last_validate.called /\ last_validate.doc.schema_valid) =>
        LET calls == ValidatorsInvoked
            known == KnownKeysInOrder
            n == Len(calls)
        IN  /\ IsPrefix(calls, known)
            /\ \A i \in 1 .. n - 1 : calls[i] \notin last_validate.doc.failing
            /\ IF \E i \in DOMAIN known : known[i] \in last_validate.doc.failing
               THEN /\ n > 0
                    /\ calls[n] \in last_validate.doc.failing
                    /\ last_validate.err = calls[n]
               ELSE /\ calls = known
                    /\ last_validate.err = ""

\* Two known filing types, out of the canonical order, both failing: only the
\* first key's validator ran and its error was returned.
SecondFailingValidatorNotRun ==
    /\ last_validate.called
    /\ last_validate.doc.schema_valid
    /\ last_validate.doc.keys = <<"header", "changeOfDirectors", "annualReport">>
    /\ last_validate.doc.failing = {"annualReport", "changeOfDirectors"}
    /\ last_validate.err = "changeOfDirectors"
    /\ ValidatorsInvoked = <<"changeOfDirectors">>

\* C17: for a schema-valid document whose filing section contains no key of
\* the known filing types validate invokes no per-type validator and returns
\* no error.
UnknownFilingTypesPass ==
    (/\ last_validate.called
     /\ last_validate.doc.schema_valid
     /\ \A i \in DOMAIN last_validate.doc.keys :
           last_validate.doc.keys[i] \notin KnownFilings) =>
        /\ ValidatorsInvoked = <<>>
        /\ last_validate.err = ""

\* A schema-valid document with only an unknown filing type was validated.
UnknownFilingValidated ==
    /\ last_validate.called
    /\ last_validate.doc.schema_valid
    /\ last_validate.doc.keys = <<"header", "unknownFiling">>
    /\ last_validate.err = ""

\* ------------------------------------------- more on the COLIN resets
\* C19: reset_corp_states(event_ids) leaves the whole CORP_STATE table
\* unchanged when event_ids is empty or when none of the given event ids is
\* the start_event_id or end_event_id of any CORP_STATE row.
ResetOfAbsentEventsChangesNothing ==
    (/\ last_call.op = "reset"
     /\ \A r \in before_call :
           /\ r.start_event_id \notin last_call.event_ids
           /\ r.end_event_id \notin last_call.event_ids) =>
        corp_state = before_call

\* A reset of event ids that no row mentions ran on a table with an ended row.
ResetOfAbsentEventsActed ==
    /\ last_call.op = "reset"
    /\ last_call.event_ids # {}
    /\ \A r \in before_call :
          /\ r.start_event_id \notin last_call.event_ids
          /\ r.end_event_id \notin last_call.event_ids
    /\ \E r \in before_call : r.end_event_id # NULL

\* The filing rows of a corporation outside the event ids of the last
\* reset_corporations call, as [event_timestmp, period_end_dt, agm_date].
RowsOutsideReset(corp_num) ==
    {[event_timestmp |-> p[1].event_timestmp, period_end_dt |-> p[2].period_end_dt,
      agm_date |-> p[2].agm_date] :
        p \in {q \in event \X filing :
                 /\ q[2].event_id = q[1].event_id
                 /\ q[1].corp_num = corp_num
                 /\ ~(q[1].event_id \in last_reset.event_ids)}}

\* The greatest element of a non-empty set of numbers.
Max(S) == CHOOSE x \in S : \A y \in S : y <= x

\* What an entry of dates_by_corp_num has to be for its corporation.
EntryIsLastDates(d) ==
    LET rows == RowsOutsideReset(d.corp_num)
        ends == {r.period_end_dt : r \in rows} \ {NULL}
        agms == {r.agm_date : r \in rows} \ {NULL}
    IN  /\ HasKey(d, "event_date") <=> rows # {}
        /\ rows # {} => d.event_date = Max({r.event_timestmp : r \in rows})
        /\ HasKey(d, "ar_date") <=> ends # {}
        /\ HasKey(d, "ar_filed_date") <=> ends # {}
        /\ ends # {} =>
              /\ d.ar_date = Max(ends)
              /\ d.ar_filed_date =
                    Max({r.event_timestmp : r \in {x \in rows : x.period_end_dt = Max(ends)}})
        /\ HasKey(d, "agm_date") <=> agms # {}
        /\ agms # {} => d.agm_date = Max(agms)

\* C20: _get_last_ar_dates_for_reset returns one entry per distinct corp_num
\* of event_info, computed only from that corporation's filing rows whose
\* event id is not in event_ids: event_date is the greatest event timestamp,
\* ar_date the greatest non-null period end date, ar_filed_date the timestamp
\* of the first row in timestamp-descending order that carries that period end
\* date, and agm_date the greatest non-null AGM date, chosen independently of
\* ar_date; a later row with an equal value never replaces an earlier one.
LastArDatesPerCorporation ==
    last_reset.called =>
        LET dates == last_reset.dates
            info == last_reset.event_info
        IN  /\ {dates[i].corp_num : i \in DOMAIN dates}
                  = {info[i].corp_num : i \in DOMAIN info}
            /\ \A i \in DOMAIN dates, j \in DOMAIN dates :
                  dates[i].corp_num = dates[j].corp_num => i = j
            /\ \A i \in DOMAIN dates : EntryIsLastDates(dates[i])

\* Two remaining annual reports share the greatest period end date: the entry
\* carries the later one's timestamp, and an AGM date that only the earlier
\* one has.
TiedPeriodEndKeepsLatestFiled ==
    /\ last_reset.called
    /\ \E i \in DOMAIN last_reset.dates :
          LET d == last_reset.dates[i]
              rows == RowsOutsideReset(d.corp_num)
          IN  /\ HasKey(d, "ar_date")
              /\ HasKey(d, "agm_date")
              /\ \E r1 \in rows, r2 \in rows :
                    /\ r1.period_end_dt = d.ar_date
                    /\ r2.period_end_dt = d.ar_date
                    /\ r1.event_timestmp < r2.event_timestmp
                    /\ r2.event_timestmp = d.ar_filed_date
                    /\ r2.agm_date = NULL
                    /\ r1.agm_date = d.agm_date

\* ------------------------------------------- more on update_corp_state
\* The call that produced this state was update_corp_state on a corporation
\* that had exactly one active row.
UpdatedCorpWithOneActiveRow ==
    /\ last_call.op = "update"
    /\ Cardinality(ActiveRows(before_call, last_call.corp_num)) = 1

\* C21: after update_corp_state(e, c, s) on a corporation c with one active
\* row r: r has end_event_id = e, the new row (c, e, null, s) exists and is the
\* only active row of c, and every other row (the rows of the other
\* corporations and the already-ended rows of c) is unchanged.
UpdateCorpStateEndsAndInserts ==
    UpdatedCorpWithOneActiveRow =>
        LET e == last_call.event_id
            c == last_call.corp_num
            r == CHOOSE x \in ActiveRows(before_call, c) : TRUE
            ended == [r EXCEPT !.end_event_id = e]
            new == CorpStateRow(c, e, NULL, last_call.state)
        IN  /\ ended \in corp_state
            /\ r \notin corp_state
            /\ new \in corp_state
            /\ ActiveRows(corp_state, c) = {new}
            /\ {x \in corp_state : x.corp_num # c} = {x \in before_call : x.corp_num # c}
            /\ {x \in before_call : x.corp_num = c /\ x.end_event_id # NULL}
                  \subseteq corp_state
            /\ corp_state = (before_call \ {r}) \cup {ended, new}

\* update_corp_state has just moved a corporation that had an ended row and an
\* active row to the state HIS, while the other corporation has rows too.
UpdateCorpStateActedOnHistory ==
    /\ UpdatedCorpWithOneActiveRow
    /\ last_call.state = "HIS"
    /\ \E x \in before_call : x.corp_num = last_call.corp_num /\ x.end_event_id # NULL
    /\ \E x \in before_call : x.corp_num # last_call.corp_num

\* ------------------------------- update_corp_state, statement by statement
\* The UPDATE statement of update_corp_state on connection p, visible to the
\* other connections at once (no wrapping transaction, no lock).
update_corp_state_update(p) ==
    /\ call[p].pc = "update"
    /\ corp_state' = EndActiveCorpState(corp_state, call[p].event_id, call[p].corp_num)
    /\ rowcount' = [rowcount EXCEPT
                       ![p] = Cardinality(ActiveRows(corp_state, call[p].corp_num))]
    /\ inserted_since' = [inserted_since EXCEPT ![p] = FALSE]
    /\ overlapped' = overlapped \cup
          {[first |-> call[q].event_id, first_state |-> call[q].state,
            second |-> call[p].event_id, second_state |-> call[p].state,
            corp_num |-> call[p].corp_num,
            rowcount |-> Cardinality(ActiveRows(corp_state, call[p].corp_num))] :
                q \in {x \in Connections \ {p} : /\ call[x].pc = "insert"
                                                 /\ call[x].corp_num = call[p].corp_num}}
    /\ call' = [call EXCEPT ![p].pc = "insert"]
    /\ UNCHANGED <<next_event_id, last_call, before_call, undo_latest, observed>>
    /\ UNCHANGED corporation_vars
    /\ UNCHANGED filings_vars
    /\ UNCHANGED internal_vars
    /\ UNCHANGED lookup_vars

\* The INSERT statement of update_corp_state on connection p; the call returns.
update_corp_state_insert(p) ==
    /\ call[p].pc = "insert"
    /\ corp_state' = InsertCorpState(corp_state, call[p].event_id, call[p].corp_num,
                                     call[p].state)
    /\ inserted_since' =
          [q \in Connections |->
              IF q = p THEN FALSE
              ELSE IF call[q].pc = "insert" /\ call[q].corp_num = call[p].corp_num
                   THEN TRUE
                   ELSE inserted_since[q]]
    /\ rowcount' = [rowcount EXCEPT ![p] = NULL]
    /\ call' = [call EXCEPT ![p] = Idle]
    /\ UNCHANGED <<next_event_id, last_call, before_call, undo_latest, overlapped, observed>>
    /\ UNCHANGED corporation_vars
    /\ UNCHANGED filings_vars
    /\ UNCHANGED internal_vars
    /\ UNCHANGED lookup_vars

\* The state_typ_cd values find_by_identifier's query gets from its inner join
\* "join CORP_STATE on CORP_STATE.corp_num = corp.corp_num and
\* CORP_STATE.end_event_id is null": one per active row of the corporation.
CorpStateJoinAnyRow(table, corp_num) ==
    {r.state_typ_cd : r \in {x \in table : x.corp_num = corp_num}}

CorpStateJoin(table, corp_num) ==
    {r.state_typ_cd : r \in ActiveRows(table, corp_num)}

\* What the query reads for an existing corporation: a CORPORATION row of type
\* CP that has EVENT rows, null dates and no JURISDICTION row, joined with
\* CORP_STATE.  fetchone() takes one of the joined rows; there is none when the
\* corporation has no active CORP_STATE row (state_typ_cd "").
QueriedRows(table, corp_num) ==
    LET states == CorpStateJoin(table, corp_num)
    IN  {[corp_num |-> corp_num, corp_typ_cd |-> "CP", state_typ_cd |-> st,
          has_event |-> TRUE, last_ar_filed_date |-> NULL, last_agm_date |-> NULL,
          can_jur_typ_cd |-> "", othr_juris_desc |-> ""] :
              st \in IF states = {} THEN {""} ELSE states}

\* Business.find_by_identifier(identifier) run against the CORP_STATE table as
\* the other connections' statements have left it.
find_by_identifier_db(identifier) ==
    /\ \E row \in QueriedRows(corp_state, identifier) :
          last_find' = FindByIdentifier(identifier, row)
    /\ observed' =
          [between |-> \E p \in Connections : /\ call[p].pc = "insert"
                                              /\ call[p].corp_num = identifier,
           inserted_since |-> \A p \in Connections :
                                 (call[p].pc = "insert" /\ call[p].corp_num = identifier)
                                     => inserted_since[p],
           active |-> Cardinality(ActiveRows(corp_state, identifier))]
    /\ UNCHANGED <<rowcount, inserted_since, overlapped>>
    /\ UNCHANGED last_validate
    /\ UNCHANGED internal_vars
    /\ UNCHANGED next_event_id
    /\ UNCHANGED corp_state_vars
    /\ UNCHANGED corporation_vars
    /\ UNCHANGED filings_vars

NextStmt ==
    \/ \E p \in Connections, c \in CorpNums, s \in StateTypCds :
          begin_update_corp_state(p, c, s)
    \/ \E p \in Connections : update_corp_state_update(p)
    \/ \E p \in Connections : update_corp_state_insert(p)
    \/ \E identifier \in CorpNums : find_by_identifier_db(identifier)

SpecStmt == Init /\ [][NextStmt]_vars

\* The last find_by_identifier raised the not-found failure.
FindRaisedNotFound ==
    /\ last_find.outcome = "raised"
    /\ last_find.exception = "BusinessNotFoundException"

\* C23 (as stated): between the UPDATE and the INSERT statement of
\* update_corp_state the corporation has no active CORP_STATE row.
NoActiveRowBetweenStatements ==
    \A p \in Connections :
        call[p].pc = "insert" => ActiveRows(corp_state, call[p].corp_num) = {}

\* C23 (amended): between the UPDATE and the INSERT statement of
\* update_corp_state the corporation has no active CORP_STATE row unless
\* another update_corp_state call has inserted one for it since the UPDATE, and
\* a find_by_identifier for that corporation that observes the state without
\* an active row raises the not-found failure although the corporation exists.
NoActiveRowBetweenStatementsUnlessInserted ==
    /\ \A p \in Connections :
          (call[p].pc = "insert" /\ ~inserted_since[p])
              => ActiveRows(corp_state, call[p].corp_num) = {}
    /\ (last_find.called /\ observed.between /\ ~observed.inserted_since)
          => (observed.active = 0 /\ FindRaisedNotFound)
    /\ (last_find.called /\ observed.active = 0) => FindRaisedNotFound

\* find_by_identifier ran between the two statements of a call for a
\* corporation that has CORP_STATE rows (its active row was just ended by the
\* call's UPDATE) and raised the not-found failure.
FindBetweenStatementsRaised ==
    /\ last_find.called
    /\ observed.between
    /\ ~observed.inserted_since
    /\ FindRaisedNotFound
    /\ \E p \in Connections :
          /\ call[p].pc = "insert"
          /\ call[p].corp_num = last_find.identifier
          /\ rowcount[p] = 1
          /\ \E r \in corp_state : /\ r.corp_num = last_find.identifier
                                   /\ r.end_event_id = call[p].event_id

\* No call is running and no call for the corporation started after both
\* calls of the overlapping pair o.
LastCallsOfCorp(o) ==
    /\ \A p \in Connections : call[p].pc = "idle"
    /\ \A r \in corp_state :
          r.corp_num = o.corp_num
              => (r.start_event_id <= o.first \/ r.start_event_id <= o.second)

\* C24: when two update_corp_state calls for the same corp_num run with their
\* statements interleaved and visible to each other (the second caller's
\* UPDATE runs between the first caller's UPDATE and INSERT), the state after
\* both calls has two active CORP_STATE rows for that corp_num: the rows the
\* two INSERTs added, each with end_event_id null.
InterleavedCallsLeaveTwoActiveRows ==
    \A o \in overlapped :
        LastCallsOfCorp(o) =>
            /\ ActiveRows(corp_state, o.corp_num) =
                  {CorpStateRow(o.corp_num, o.first, NULL, o.first_state),
                   CorpStateRow(o.corp_num, o.second, NULL, o.second_state)}
            /\ Cardinality(ActiveRows(corp_state, o.corp_num)) = 2

\* Both calls have returned; the first caller's UPDATE had ended the one active
\* row of CP1, the second caller's UPDATE found no active row to end, and CP1
\* has two active rows.
TwoActiveRowsAfterInterleaving ==
    \E o \in overlapped :
        /\ LastCallsOfCorp(o)
        /\ o.corp_num = "CP1"
        /\ o.rowcount = 0
        /\ CorpStateRow("CP1", 0, o.first, "ACT") \in corp_state
        /\ Cardinality(ActiveRows(corp_state, "CP1")) = 2

\* ------------------------------------------- the four writing operations
\* Business.update_corporation(cursor, corp_num, date) at the current clock
\* value.
update_corporation(corp_num, date) ==
    /\ corporation' = UpdateCorporation(corporation, corp_num, date, sysdate)
    /\ UNCHANGED <<event, filing, sysdate, before_event, last_reset, next_event_id>>
    /\ UNCHANGED corp_state_vars
    /\ UNCHANGED filings_vars
    /\ UNCHANGED other_vars

\* The four operations in any order on a database whose EVENT and FILING rows
\* the filings recorded so far have written.
NextBusiness ==
    \/ \E d \in {<<1, 1>>} : add_filing("CP1", d[1], d[2])
    \/ \E d \in {1, NULL} : update_corporation("CP1", d)
    \/ \E s \in {"HIS"} : update_corp_state("CP1", s)
    \/ \E first \in 1 .. next_event_id :
          LET ids == {e.event_id : e \in {x \in event : x.event_id >= first}}
          IN  reset_corporations(EventInfoOf(event, ids), ids)
    \/ \E first \in 1 .. next_event_id :
          reset_corp_states(first .. (next_event_id - 1))

SpecBusiness == Init /\ [][NextBusiness]_vars

\* A CORP_STATE row is the row of a corporation started by an event.
CorpStateKeys(table) == {<<r.corp_num, r.start_event_id>> : r \in table}

\* The step leaves EVENT and FILING as they are: no insert, update or delete.
EventAndFilingUnchanged == event' = event /\ filing' = filing

\* The step removes no CORP_STATE row.
NoCorpStateRowRemoved == CorpStateKeys(corp_state) \subseteq CorpStateKeys(corp_state')

\* C22: update_corporation, update_corp_state, reset_corporations and
\* reset_corp_states leave the EVENT and FILING tables unchanged, and of these
\* four operations only reset_corp_states ever removes a CORP_STATE row.
WritesLeaveEventAndFiling ==
    [][/\ (\E d \in {1, NULL} : update_corporation("CP1", d))
            => (EventAndFilingUnchanged /\ NoCorpStateRowRemoved)
       /\ (\E s \in {"HIS"} : update_corp_state("CP1", s))
            => (EventAndFilingUnchanged /\ NoCorpStateRowRemoved)
       /\ (/\ ~last_reset.called
           /\ last_reset'.called
           /\ \E first \in 1 .. next_event_id :
                 LET ids == {e.event_id : e \in {x \in event : x.event_id >= first}}
                 IN  reset_corporations(EventInfoOf(event, ids), ids))
            => (EventAndFilingUnchanged /\ NoCorpStateRowRemoved)
       /\ (\E first \in 1 .. next_event_id :
              reset_corp_states(first .. (next_event_id - 1)))
            => EventAndFilingUnchanged]_vars

\* The four operations have all acted on a database with EVENT and FILING
\* rows: reset_corp_states has removed the row that the update_corp_state call
\* before it had inserted, reset_corporations has updated a corporation, and a
\* corporation carries the current clock value, which only update_corporation
\* writes.
AllFourOperationsActed ==
    /\ event # {}
    /\ filing # {}
    /\ last_call.op = "reset"
    /\ last_call.after_update # NULL
    /\ <<"CP1", last_call.after_update>> \in CorpStateKeys(before_call)
    /\ <<"CP1", last_call.after_update>> \notin CorpStateKeys(corp_state)
    /\ last_reset.called
    /\ last_reset.updated # <<>>
    /\ \E c \in CorpNums : corporation[c].last_ledger_dt = sysdate
====
